---------------------------- MODULE Spec2Model ----------------------------
(***************************************************************************)
(* A model of duckdb_client: the DuckDBClient class (client.py) and the    *)
(* duckdb-cli command dispatcher (cli.py).                                  *)
(*                                                                         *)
(* Text (SQL statements, log messages, printed lines) is a sequence of     *)
(* string tokens; an f-string is the concatenation of its pieces, and an   *)
(* integer is formatted into decimal digits.  The embedded engine is the   *)
(* environment: it parses the tokens it is sent and answers with a         *)
(* DataFrame or with an error.                                             *)
(***************************************************************************)
EXTENDS Integers, Sequences, FiniteSets, TLC

VARIABLES
    conn,      \* DuckDBClient.conn: None or the connection handle
    engine,    \* the engine's side of the connection: open flag, counters, statements received
    db,        \* the database: table name -> number of rows
    fs,        \* the file system: path -> file content
    log,       \* the log records emitted to the error stream
    level,     \* the root logger's level
    stdout,    \* what print() has written
    stderr,    \* what else reached the error stream (an interpreter traceback)
    args,      \* the parsed command line (argparse.Namespace)
    pc,        \* position of the process (cli) or of the client object (library use)
    pending,   \* the exception propagating out of the handler, if any
    status,    \* <<>> while the process runs, <<n>> once it has exited with status n
    calls,     \* history: the calls made on the Engine Client, with what each did
    finalized  \* whether __del__ has run on the client object

vars == <<conn, engine, db, fs, log, level, stdout, stderr, args, pc, pending,
          status, calls, finalized>>

-----------------------------------------------------------------------------
(* Bounds of the model *)

MaxRows == 2
MaxCalls == 3

-----------------------------------------------------------------------------
(* Values *)

None == "None"
Handle == "DuckDBPyConnection"

ClientLogger == "duckdb_client.client"
CliLogger == "duckdb_client.cli"

DefaultLimit == 10

NoDf == [columns |-> <<>>, nrows |-> 0]
NoExc == [type |-> None, msg |-> <<>>, code |-> 0]

Exc(t, m) == [type |-> t, msg |-> m, code |-> 1]

Raised(r) == r.exc.type # None

Min(a, b) == IF a <= b THEN a ELSE b

(* str(n) for n >= 0, as decimal digits *)
Digit(d) ==
    CASE d = 0 -> "0" [] d = 1 -> "1" [] d = 2 -> "2" [] d = 3 -> "3"
      [] d = 4 -> "4" [] d = 5 -> "5" [] d = 6 -> "6" [] d = 7 -> "7"
      [] d = 8 -> "8" [] d = 9 -> "9"

RECURSIVE IntStr(_)
IntStr(n) == IF n < 10 THEN <<Digit(n)>> ELSE IntStr(n \div 10) \o <<Digit(n % 10)>>

Digits == {"0", "1", "2", "3", "4", "5", "6", "7", "8", "9"}

DigitVal(c) == CHOOSE d \in 0..9 : Digit(d) = c

IsNumber(s) == Len(s) > 0 /\ \A i \in 1..Len(s) : s[i] \in Digits

RECURSIVE StrInt(_)
StrInt(s) ==
    IF Len(s) = 1 THEN DigitVal(s[1])
    ELSE 10 * StrInt(SubSeq(s, 1, Len(s) - 1)) + DigitVal(s[Len(s)])

(* whether the tokens of part occur, in order and adjacent, in text *)
Contains(text, part) ==
    \E i \in 0..(Len(text) - Len(part)) : SubSeq(text, i + 1, i + Len(part)) = part

-----------------------------------------------------------------------------
(* The environment: paths, files and the embedded engine *)

MemoryDb == ":memory:"
DbFile == "my.duckdb"
LockedDb == "/locked/my.duckdb"

UnopenablePaths == {LockedDb}
ReadOnlyPaths == {"/ro/out.csv", "/ro/out.parquet"}

TableColumns == <<"id", "name">>

CsvFile == [fmt |-> "csv", text |-> <<"id,name\n...">>, nrows |-> MaxRows]
ParquetFile == [fmt |-> "parquet", text |-> <<"PAR1...">>, nrows |-> MaxRows]
SqlFile(q) == [fmt |-> "sql", text |-> q, nrows |-> 0]

Q_Const == <<"SELECT 1 AS a, 2 AS b">>
Q_Users == <<"SELECT * FROM ", "users">>
Q_Bad == <<"SELEC 1">>

(* The answer of the engine to a statement that reads: a DataFrame, or rejected *)
Rejected == [ok |-> FALSE, df |-> NoDf]
Answer(cols, n) == [ok |-> TRUE, df |-> [columns |-> cols, nrows |-> n]]

EngineRead(d, q) ==
    IF q = Q_Const THEN Answer(<<"a", "b">>, 1)
    ELSE IF q = <<"SHOW TABLES">> THEN Answer(<<"name">>, Cardinality(DOMAIN d))
    ELSE IF Len(q) = 2 /\ q[1] = "DESCRIBE "
        THEN IF q[2] \in DOMAIN d
             THEN Answer(<<"column_name", "column_type">>, Len(TableColumns))
             ELSE Rejected
    ELSE IF Len(q) = 2 /\ q[1] = "SELECT * FROM "
        THEN IF q[2] \in DOMAIN d THEN Answer(TableColumns, d[q[2]]) ELSE Rejected
    ELSE IF Len(q) > 3 /\ q[1] = "SELECT * FROM " /\ q[3] = " LIMIT "
        THEN IF q[2] \in DOMAIN d /\ IsNumber(SubSeq(q, 4, Len(q)))
             THEN Answer(TableColumns, Min(d[q[2]], StrInt(SubSeq(q, 4, Len(q)))))
             ELSE Rejected
    ELSE Rejected

IsCreateTable(q) ==
    /\ Len(q) = 5
    /\ q[1] = "CREATE TABLE "
    /\ q[3] \in {" AS SELECT * FROM read_csv_auto('", " AS SELECT * FROM read_parquet('"}
    /\ q[5] = "')"

ReaderFmt(q) == IF q[3] = " AS SELECT * FROM read_csv_auto('" THEN "csv" ELSE "parquet"

IsCopy(q) ==
    /\ Len(q) > 4
    /\ q[1] = "COPY ("
    /\ q[Len(q) - 2] = ") TO '"
    /\ q[Len(q)] = "' (FORMAT PARQUET)"

(* What the engine does with one statement on database d and file system f:
   [ok, df, db, fs] *)
Refused(d, f) == [ok |-> FALSE, df |-> NoDf, db |-> d, fs |-> f]

Reads(d, f, r) == [ok |-> r.ok, df |-> r.df, db |-> d, fs |-> f]

CreateTable(d, f, table, path, fmt) ==
    IF table \notin DOMAIN d /\ path \in DOMAIN f /\ f[path].fmt = fmt
    THEN [ok |-> TRUE, df |-> [columns |-> <<"Count">>, nrows |-> 1],
          db |-> [t \in DOMAIN d \cup {table} |->
                    IF t = table THEN f[path].nrows ELSE d[t]],
          fs |-> f]
    ELSE Refused(d, f)

CopyTo(d, f, inner, path) ==
    IF inner.ok /\ path \notin ReadOnlyPaths
    THEN [ok |-> TRUE, df |-> [columns |-> <<"Count">>, nrows |-> 1],
          db |-> d,
          fs |-> [p \in DOMAIN f \cup {path} |->
                    IF p = path
                    THEN [fmt |-> "parquet", text |-> <<"PAR1...">>,
                          nrows |-> inner.df.nrows]
                    ELSE f[p]]]
    ELSE Refused(d, f)

EngineRun(d, f, q) ==
    IF IsCreateTable(q) THEN CreateTable(d, f, q[2], q[4], ReaderFmt(q))
    ELSE IF IsCopy(q)
    THEN CopyTo(d, f, EngineRead(d, SubSeq(q, 2, Len(q) - 3)), q[Len(q) - 1])
    ELSE Reads(d, f, EngineRead(d, q))

-----------------------------------------------------------------------------
(* The world an Engine Client call acts on, and what a call gives back:
   [w |-> the world after, exc |-> the exception raised or NoExc, df |-> the
   DataFrame returned] *)

World == [conn |-> conn, engine |-> engine, db |-> db, fs |-> fs, log |-> log,
          level |-> level]

Ok(w, df) == [w |-> w, exc |-> NoExc, df |-> df]
Raise(w, e) == [w |-> w, exc |-> e, df |-> NoDf]

LevelNo(l) == CASE l = "DEBUG" -> 1 [] l = "INFO" -> 2 [] l = "WARNING" -> 3 [] l = "ERROR" -> 4

(* logger.<lvl>(msg): the record is emitted when the level is enabled *)
Emit(w, lvl, name, msg) ==
    IF LevelNo(lvl) >= LevelNo(w.level)
    THEN [w EXCEPT !.log = Append(@, [level |-> lvl, name |-> name, msg |-> msg])]
    ELSE w

(* duckdb.connect(path) *)
EngineConnect(w, path) ==
    IF path \in UnopenablePaths
    THEN Raise(w, Exc("duckdb.IOException", <<"IO Error: Cannot open file ", path>>))
    ELSE Ok([w EXCEPT !.engine.open = TRUE, !.engine.opens = @ + 1], NoDf)

(* self.conn.execute(query).fetchdf(): on None the attribute lookup fails, and
   otherwise the engine receives the statement and runs or rejects it *)
Received(w, query, r) ==
    IF r.ok
    THEN Ok([w EXCEPT !.engine.stmts = Append(@, [sql |-> query, ok |-> TRUE]),
                      !.db = r.db, !.fs = r.fs], r.df)
    ELSE Raise([w EXCEPT !.engine.stmts = Append(@, [sql |-> query, ok |-> FALSE])],
               Exc("duckdb.Error", <<"Error: ">> \o query))

ConnExecute(w, query) ==
    IF w.conn = None
    THEN Raise(w, Exc("AttributeError",
                      <<"'NoneType' object has no attribute 'execute'">>))
    ELSE Received(w, query, EngineRun(w.db, w.fs, query))

(* self.conn.close() *)
ConnClose(w) ==
    IF w.conn = None
    THEN Raise(w, Exc("AttributeError", <<"'NoneType' object has no attribute 'close'">>))
    ELSE Ok([w EXCEPT !.engine.open = FALSE, !.engine.closes = @ + 1], NoDf)

(* DataFrame.to_csv(path, index=False) *)
to_csv(w, df, path) ==
    IF path \in ReadOnlyPaths
    THEN Raise(w, Exc("OSError", <<"Cannot save file into a non-existent directory: ", path>>))
    ELSE Ok([w EXCEPT !.fs = [p \in DOMAIN w.fs \cup {path} |->
                                IF p = path
                                THEN [fmt |-> "csv", text |-> <<"id,name\n...">>,
                                      nrows |-> df.nrows]
                                ELSE w.fs[p]]], NoDf)

-----------------------------------------------------------------------------
(* DuckDBClient.  A method that goes on after a call it makes is written as
   the method and, before it, <method>_after: what it does with the result r
   of that call. *)

connect_after(r) ==
    IF ~Raised(r) THEN Ok([r.w EXCEPT !.conn = Handle], NoDf)
    ELSE Raise(Emit(r.w, "ERROR", ClientLogger,
                    <<"Failed to connect to database: ">> \o r.exc.msg), r.exc)

DuckDBClient_connect(w, db_path) == connect_after(EngineConnect(w, db_path))

init_after(r, path) ==
    IF Raised(r) THEN r
    ELSE Ok(Emit(r.w, "INFO", ClientLogger, <<"Connected to DuckDB: ", path>>), NoDf)

DbPathOf(db_path) == IF db_path # None THEN db_path ELSE MemoryDb

DuckDBClient_init(w, db_path) ==
    init_after(DuckDBClient_connect([w EXCEPT !.conn = None], DbPathOf(db_path)),
               DbPathOf(db_path))

execute_query_after(r, query) ==
    IF ~Raised(r)
    THEN Ok(Emit(r.w, "INFO", ClientLogger,
                 <<"Query executed successfully: ">> \o IntStr(r.df.nrows)
                    \o <<" rows returned">>), r.df)
    ELSE Raise(Emit(Emit(r.w, "ERROR", ClientLogger,
                         <<"Query execution failed: ">> \o r.exc.msg),
                    "ERROR", ClientLogger, <<"Query: ">> \o query), r.exc)

execute_query(w, query) ==
    execute_query_after(
        ConnExecute(Emit(w, "DEBUG", ClientLogger, <<"Executing query: ">> \o query),
                    query),
        query)

execute_file(w, sql_file) ==
    IF sql_file \notin DOMAIN w.fs
    THEN Raise(w, Exc("FileNotFoundError", <<"SQL file not found: ", sql_file>>))
    ELSE execute_query(Emit(w, "INFO", ClientLogger,
                            <<"Executing SQL file: ", sql_file>>),
                       w.fs[sql_file].text)

show_tables(w) == execute_query(w, <<"SHOW TABLES">>)

describe_table(w, table_name) == execute_query(w, <<"DESCRIBE ", table_name>>)

get_table_sample(w, table_name, limit) ==
    execute_query(w, <<"SELECT * FROM ", table_name, " LIMIT ">> \o IntStr(limit))

export_to_csv_written(c, df, output_file) ==
    IF Raised(c) THEN c
    ELSE Ok(Emit(c.w, "INFO", ClientLogger,
                 <<"Successfully exported ">> \o IntStr(df.nrows)
                    \o <<" rows to ", output_file>>), NoDf)

export_to_csv_after(r, output_file) ==
    IF Raised(r) THEN r
    ELSE export_to_csv_written(to_csv(r.w, r.df, output_file), r.df, output_file)

export_to_csv(w, query, output_file) ==
    export_to_csv_after(
        execute_query(Emit(w, "INFO", ClientLogger,
                           <<"Exporting query result to CSV: ", output_file>>),
                      query),
        output_file)

export_to_parquet_after(r, output_file) ==
    IF Raised(r) THEN r
    ELSE Ok(Emit(r.w, "INFO", ClientLogger,
                 <<"Successfully exported to ", output_file>>), NoDf)

export_to_parquet(w, query, output_file) ==
    export_to_parquet_after(
        ConnExecute(Emit(w, "INFO", ClientLogger,
                         <<"Exporting query result to Parquet: ", output_file>>),
                    <<"COPY (">> \o query
                        \o <<") TO '", output_file, "' (FORMAT PARQUET)">>),
        output_file)

import_after(r, file, table_name) ==
    IF Raised(r) THEN r
    ELSE Ok(Emit(r.w, "INFO", ClientLogger,
                 <<"Successfully imported ", file, " to table '", table_name, "'">>),
            NoDf)

import_csv_unchecked(w, csv_file, table_name) ==
    import_after(
        execute_query(Emit(w, "INFO", ClientLogger,
                           <<"Importing CSV to table '", table_name, "': ", csv_file>>),
                      <<"CREATE TABLE ", table_name,
                        " AS SELECT * FROM read_csv_auto('", csv_file, "')">>),
        csv_file, table_name)

import_csv(w, csv_file, table_name) ==
    IF csv_file \notin DOMAIN w.fs
    THEN Raise(w, Exc("FileNotFoundError", <<"CSV file not found: ", csv_file>>))
    ELSE import_after(
            execute_query(Emit(w, "INFO", ClientLogger,
                               <<"Importing CSV to table '", table_name, "': ", csv_file>>),
                          <<"CREATE TABLE ", table_name,
                            " AS SELECT * FROM read_csv_auto('", csv_file, "')">>),
            csv_file, table_name)

import_parquet(w, parquet_file, table_name) ==
    IF parquet_file \notin DOMAIN w.fs
    THEN Raise(w, Exc("FileNotFoundError", <<"Parquet file not found: ", parquet_file>>))
    ELSE import_after(
            execute_query(Emit(w, "INFO", ClientLogger,
                               <<"Importing Parquet to table '", table_name, "': ",
                                 parquet_file>>),
                          <<"CREATE TABLE ", table_name,
                            " AS SELECT * FROM read_parquet('", parquet_file, "')">>),
            parquet_file, table_name)

close_after_keeps_handle(r) ==
    IF Raised(r) THEN r
    ELSE Ok(Emit(r.w, "INFO", ClientLogger, <<"Database connection closed">>), NoDf)

close_after(r) ==
    IF Raised(r) THEN r
    ELSE Ok([Emit(r.w, "INFO", ClientLogger, <<"Database connection closed">>)
                EXCEPT !.conn = None], NoDf)

close(w) == IF w.conn # None THEN close_after(ConnClose(w)) ELSE Ok(w, NoDf)

exit_without_close(w) == Ok(w, NoDf)

DuckDBClient_exit(w) == close(w)

DuckDBClient_del(w) == close(w)

-----------------------------------------------------------------------------
(* History of the calls made on the client: what was called, with which
   argument, what it raised and returned, and the client and the engine
   before and after *)

Snap(w) == [conn |-> w.conn, open |-> w.engine.open, opens |-> w.engine.opens,
            closes |-> w.engine.closes, nstmts |-> Len(w.engine.stmts),
            db |-> w.db, files |-> DOMAIN w.fs, nlog |-> Len(w.log)]

Call(op, arg, r, w) ==
    [op |-> op, arg |-> arg, exc |-> r.exc.type, df |-> r.df, pre |-> Snap(w),
     post |-> Snap(r.w), nout |-> Len(stdout)]

SetWorld(w) ==
    /\ conn' = w.conn
    /\ engine' = w.engine
    /\ db' = w.db
    /\ fs' = w.fs
    /\ log' = w.log
    /\ level' = w.level

-----------------------------------------------------------------------------
(* cli.py *)

Formats == {"psql", "grid", "simple", "plain", "markdown"}

Line(text) == [kind |-> "text", text |-> text, fmt |-> None, df |-> NoDf]

(* tabulate(df, headers='keys', tablefmt=format_style, showindex=False) *)
tabulate(df, format_style) ==
    [kind |-> "table", text |-> <<>>, fmt |-> format_style, df |-> df]

HelpText == [kind |-> "help", text |-> <<"usage: duckdb-cli ...">>, fmt |-> None, df |-> NoDf]

print_dataframe_falls_through(df, format_style) ==
    (IF df.nrows = 0 THEN <<Line(<<"No results.">>)>> ELSE <<>>)
    \o <<tabulate(df, format_style),
          Line(<<"\n(">> \o IntStr(df.nrows) \o <<" rows)">>)>>

print_dataframe(df, format_style) ==
    IF df.nrows = 0
    THEN <<Line(<<"No results.">>)>>
    ELSE <<tabulate(df, format_style),
           Line(<<"\n(">> \o IntStr(df.nrows) \o <<" rows)">>)>>

sys_exit(code) == [type |-> "SystemExit", msg |-> IntStr(code), code |-> code]

HandlerExcept_without_exit(w, label, e) ==
    [w |-> Emit(w, "ERROR", CliLogger, label \o e.msg), exc |-> NoExc]

(* except Exception as e: logger.error(f"<label>: {e}"); sys.exit(1) *)
HandlerExcept(w, label, e) ==
    [w |-> Emit(w, "ERROR", CliLogger, label \o e.msg), exc |-> sys_exit(1)]

(* the try statement of a handler is left: normally, or with SystemExit *)
Leave(w, cs, out, p) ==
    /\ SetWorld(w)
    /\ calls' = cs
    /\ stdout' = out
    /\ pending' = p
    /\ pc' = "leave"
    /\ UNCHANGED <<stderr, args, status, finalized>>

Fail(r, cs, label) ==
    Leave(HandlerExcept(r.w, label, r.exc).w, cs, stdout,
          HandlerExcept(r.w, label, r.exc).exc)

(* a handler whose try block is one call followed by print_dataframe *)
Show(op, arg, r, label) ==
    IF Raised(r) THEN Fail(r, Append(calls, Call(op, arg, r, World)), label)
    ELSE Leave(r.w, Append(calls, Call(op, arg, r, World)),
               stdout \o print_dataframe(r.df, args.format), NoExc)

(* a handler whose try block is one call followed by one print *)
Report(op, arg, r, label, text) ==
    IF Raised(r) THEN Fail(r, Append(calls, Call(op, arg, r, World)), label)
    ELSE Leave(r.w, Append(calls, Call(op, arg, r, World)),
               Append(stdout, Line(text)), NoExc)

query_csv(r, c) ==
    IF Raised(c) THEN Fail(c, calls \o <<Call("execute_query", args.query, r, World),
                                         Call("DataFrame.to_csv", <<args.output_csv>>, c, r.w)>>,
                           <<"Query execution failed: ">>)
    ELSE Leave(c.w, calls \o <<Call("execute_query", args.query, r, World),
                               Call("DataFrame.to_csv", <<args.output_csv>>, c, r.w)>>,
               Append(stdout, Line(<<"Successfully exported ">> \o IntStr(r.df.nrows)
                                      \o <<" rows to: ", args.output_csv>>)), NoExc)

query_parquet(r, e) ==
    IF Raised(e) THEN Fail(e, calls \o <<Call("execute_query", args.query, r, World),
                                         Call("export_to_parquet",
                                              args.query \o <<args.output_parquet>>, e, r.w)>>,
                           <<"Query execution failed: ">>)
    ELSE Leave(e.w, calls \o <<Call("execute_query", args.query, r, World),
                               Call("export_to_parquet",
                                    args.query \o <<args.output_parquet>>, e, r.w)>>,
               Append(stdout, Line(<<"Successfully exported to: ", args.output_parquet>>)),
               NoExc)

query_after(r) ==
    IF Raised(r)
    THEN Fail(r, Append(calls, Call("execute_query", args.query, r, World)),
              <<"Query execution failed: ">>)
    ELSE IF args.output_csv # None
    THEN query_csv(r, to_csv(r.w, r.df, args.output_csv))
    ELSE IF args.output_parquet # None
    THEN query_parquet(r, export_to_parquet(r.w, args.query, args.output_parquet))
    ELSE Leave(r.w, Append(calls, Call("execute_query", args.query, r, World)),
               stdout \o print_dataframe(r.df, args.format), NoExc)

cmd_query ==
    /\ pc = "body"
    /\ args.command = "query"
    /\ query_after(execute_query(World, args.query))

cmd_file ==
    /\ pc = "body"
    /\ args.command = "file"
    /\ Show("execute_file", <<args.file>>, execute_file(World, args.file),
            <<"File execution failed: ">>)

cmd_tables ==
    /\ pc = "body"
    /\ args.command = "tables"
    /\ Show("show_tables", <<>>, show_tables(World), <<"Failed to show tables: ">>)

cmd_describe ==
    /\ pc = "body"
    /\ args.command = "describe"
    /\ Show("describe_table", <<args.table>>, describe_table(World, args.table),
            <<"Failed to describe table: ">>)

cmd_sample ==
    /\ pc = "body"
    /\ args.command = "sample"
    /\ Show("get_table_sample", <<args.table>> \o IntStr(args.limit),
            get_table_sample(World, args.table, args.limit),
            <<"Failed to get sample data: ">>)

cmd_export_csv ==
    /\ pc = "body"
    /\ args.command = "export-csv"
    /\ Report("export_to_csv", args.query \o <<args.output>>,
              export_to_csv(World, args.query, args.output),
              <<"CSV export failed: ">>,
              <<"Successfully exported to: ", args.output>>)

cmd_export_parquet ==
    /\ pc = "body"
    /\ args.command = "export-parquet"
    /\ Report("export_to_parquet", args.query \o <<args.output>>,
              export_to_parquet(World, args.query, args.output),
              <<"Parquet export failed: ">>,
              <<"Successfully exported to: ", args.output>>)

cmd_import_csv ==
    /\ pc = "body"
    /\ args.command = "import-csv"
    /\ Report("import_csv", <<args.file, args.table>>,
              import_csv(World, args.file, args.table),
              <<"CSV import failed: ">>,
              <<"Successfully imported ", args.file, " to table '", args.table, "'">>)

cmd_import_parquet ==
    /\ pc = "body"
    /\ args.command = "import-parquet"
    /\ Report("import_parquet", <<args.file, args.table>>,
              import_parquet(World, args.file, args.table),
              <<"Parquet import failed: ">>,
              <<"Successfully imported ", args.file, " to table '", args.table, "'">>)

Commands == {"query", "file", "tables", "describe", "sample", "export-csv",
             "export-parquet", "import-csv", "import-parquet"}

(* parser_<command>.set_defaults(func=cmd_<command>): hasattr(args, 'func') *)
HasFunc(a) == a.command \in Commands

(* main(), after parse_args() has returned the Namespace *)
main ==
    /\ pc = "main"
    /\ level' = IF args.verbose THEN "DEBUG" ELSE level
    /\ log' = IF args.verbose
              THEN Append(log, [level |-> "DEBUG", name |-> CliLogger,
                                msg |-> <<"Verbose mode enabled">>])
              ELSE log
    /\ IF args.command = None
       THEN /\ stdout' = Append(stdout, HelpText)
            /\ pending' = sys_exit(0)
            /\ pc' = "teardown"
       ELSE IF HasFunc(args)
       THEN /\ pc' = "enter"
            /\ UNCHANGED <<stdout, pending>>
       ELSE /\ stdout' = Append(stdout, HelpText)
            /\ pending' = sys_exit(1)
            /\ pc' = "teardown"
    /\ UNCHANGED <<conn, engine, db, fs, stderr, args, status, calls, finalized>>

(* with DuckDBClient(args.db) as client: the constructor and __enter__ *)
with_enter ==
    /\ pc = "enter"
    /\ LET r == DuckDBClient_init(World, args.db)
       IN  /\ SetWorld(r.w)
           /\ calls' = Append(calls, Call("__init__", <<args.db>>, r, World))
           /\ IF Raised(r)
              THEN pending' = r.exc /\ pc' = "teardown"
              ELSE pending' = pending /\ pc' = "body"
    /\ UNCHANGED <<stdout, stderr, args, status, finalized>>

(* the with statement is left: __exit__ runs and, returning None, lets a
   propagating exception through *)
with_exit ==
    /\ pc = "leave"
    /\ LET r == DuckDBClient_exit(World)
       IN  /\ SetWorld(r.w)
           /\ calls' = Append(calls, Call("__exit__", <<>>, r, World))
           /\ pending' = IF Raised(r) THEN r.exc ELSE pending
    /\ pc' = "teardown"
    /\ UNCHANGED <<stdout, stderr, args, status, finalized>>

(* the client object is unreachable: the interpreter may run __del__, at a
   time of its choosing or not at all; what __del__ raises is ignored *)
finalizer ==
    /\ pc = "teardown"
    /\ calls # <<>>
    /\ ~finalized
    /\ LET r == DuckDBClient_del(World)
       IN  /\ SetWorld(r.w)
           /\ calls' = Append(calls, Call("__del__", <<>>, r, World))
    /\ finalized' = TRUE
    /\ UNCHANGED <<stdout, stderr, args, pc, pending, status>>

(* the interpreter exits: status 0 on a normal return, the code of a
   SystemExit, and 1 with a traceback for any other exception *)
ExitStatus(p) ==
    IF p.type = None THEN 0 ELSE IF p.type = "SystemExit" THEN p.code ELSE 1

process_exit ==
    /\ pc = "teardown"
    /\ status' = <<ExitStatus(pending)>>
    /\ stderr' = IF pending.type \notin {None, "SystemExit"}
                 THEN Append(stderr, <<"Traceback (most recent call last): ",
                                       pending.type>>)
                 ELSE stderr
    /\ pc' = "exited"
    /\ UNCHANGED <<conn, engine, db, fs, log, level, stdout, args, pending, calls,
                   finalized>>

-----------------------------------------------------------------------------
(* The command lines and the environments of one invocation *)

NoArgs == [command |-> None, db |-> MemoryDb, verbose |-> FALSE, query |-> <<>>,
           file |-> None, table |-> None, limit |-> DefaultLimit, format |-> "psql",
           output_csv |-> None, output_parquet |-> None, output |-> None]

Queries == {Q_Const, Q_Users, Q_Bad}
Limits == {0, 1, DefaultLimit}

Requests ==
    {NoArgs}
    \cup {[NoArgs EXCEPT !.command = "query", !.query = q, !.format = f,
                         !.output_csv = c, !.output_parquet = p] :
            q \in Queries, f \in Formats, c \in {None, "out.csv", "/ro/out.csv"},
            p \in {None, "out.parquet", "/ro/out.parquet"}}
    \cup {[NoArgs EXCEPT !.command = "file", !.file = "q.sql", !.format = f] :
            f \in Formats}
    \cup {[NoArgs EXCEPT !.command = "tables", !.format = f] : f \in Formats}
    \cup {[NoArgs EXCEPT !.command = "describe", !.table = "users", !.format = f] :
            f \in Formats}
    \cup {[NoArgs EXCEPT !.command = "sample", !.table = "users", !.limit = n,
                         !.format = f] : n \in Limits, f \in Formats}
    \cup {[NoArgs EXCEPT !.command = "export-csv", !.query = q, !.output = o] :
            q \in Queries, o \in {"out.csv", "/ro/out.csv"}}
    \cup {[NoArgs EXCEPT !.command = "export-parquet", !.query = q, !.output = o] :
            q \in Queries, o \in {"out.parquet", "/ro/out.parquet"}}
    \cup {[NoArgs EXCEPT !.command = "import-csv", !.file = p, !.table = "users"] :
            p \in {"data.csv", "data.parquet"}}
    \cup {[NoArgs EXCEPT !.command = "import-parquet", !.file = p, !.table = "users"] :
            p \in {"data.csv", "data.parquet"}}

AllFiles == [p \in {"q.sql", "data.csv", "data.parquet"} |->
                IF p = "q.sql" THEN SqlFile(Q_Users)
                ELSE IF p = "data.csv" THEN CsvFile ELSE ParquetFile]

FileSystems == {[p \in S |-> AllFiles[p]] : S \in SUBSET DOMAIN AllFiles}

(* a fresh in-memory database holds no table; a database file holds what
   earlier invocations left in it *)
Databases(path) ==
    IF path = DbFile
    THEN {<<>>} \cup {[t \in {"users"} |-> n] : n \in 0..MaxRows}
    ELSE {<<>>}

NoEngine == [open |-> FALSE, opens |-> 0, closes |-> 0, stmts |-> <<>>]

Invocation(requests, filesystems, verbosity) ==
    /\ args \in {[r EXCEPT !.db = d, !.verbose = v] :
                    r \in requests, d \in {MemoryDb, DbFile, LockedDb}, v \in verbosity}
    /\ db \in Databases(args.db)
    /\ fs \in filesystems
    /\ conn = None
    /\ engine = NoEngine
    /\ log = <<>>
    /\ level = "INFO"
    /\ stdout = <<>>
    /\ stderr = <<>>
    /\ pc = "main"
    /\ pending = NoExc
    /\ status = <<>>
    /\ calls = <<>>
    /\ finalized = FALSE

Init == Invocation(Requests, FileSystems, BOOLEAN)

(* the invocations over which termination is verified: every command and
   option, one table style and one row limit, all input files present or
   none, not verbose *)
FairInit ==
    Invocation({r \in Requests : r.format = "psql" /\ r.limit = DefaultLimit},
               {AllFiles, <<>>}, {FALSE})

Next ==
    \/ main
    \/ with_enter
    \/ cmd_query
    \/ cmd_file
    \/ cmd_tables
    \/ cmd_describe
    \/ cmd_sample
    \/ cmd_export_csv
    \/ cmd_export_parquet
    \/ cmd_import_csv
    \/ cmd_import_parquet
    \/ with_exit
    \/ finalizer
    \/ process_exit

Spec == Init /\ [][Next]_vars

(* the process is one thread of control: a step that can be taken is taken *)
FairSpec == FairInit /\ [][Next]_vars /\ WF_vars(Next)

-----------------------------------------------------------------------------
(* The Engine Client used as a library: one client is constructed, and then
   its methods are called in any order, up to MaxCalls calls in all.  The
   release triggers (close, __exit__, __del__) may also be called on a client
   whose construction failed. *)

LibCall(op, arg, r) ==
    /\ Len(calls) < MaxCalls
    /\ SetWorld(r.w)
    /\ calls' = Append(calls, Call(op, arg, r, World))
    /\ UNCHANGED <<stdout, stderr, args, pending, status, finalized>>

new_client ==
    /\ pc = "new"
    /\ LibCall("__init__", <<args.db>>, DuckDBClient_init(World, args.db))
    /\ pc' = IF Raised(DuckDBClient_init(World, args.db)) THEN "failed" ELSE "live"

call_execute_query ==
    /\ pc = "live"
    /\ \E q \in {Q_Users, Q_Bad} : LibCall("execute_query", q, execute_query(World, q))
    /\ UNCHANGED pc

call_execute_file ==
    /\ pc = "live"
    /\ LibCall("execute_file", <<"q.sql">>, execute_file(World, "q.sql"))
    /\ UNCHANGED pc

call_show_tables ==
    /\ pc = "live"
    /\ LibCall("show_tables", <<>>, show_tables(World))
    /\ UNCHANGED pc

call_describe_table ==
    /\ pc = "live"
    /\ LibCall("describe_table", <<"users">>, describe_table(World, "users"))
    /\ UNCHANGED pc

call_get_table_sample ==
    /\ pc = "live"
    /\ \E n \in {1, DefaultLimit} :
          LibCall("get_table_sample", <<"users">> \o IntStr(n),
                  get_table_sample(World, "users", n))
    /\ UNCHANGED pc

call_export_to_csv ==
    /\ pc = "live"
    /\ \E q \in {Q_Users, Q_Bad}, o \in {"out.csv", "/ro/out.csv"} :
          LibCall("export_to_csv", q \o <<o>>, export_to_csv(World, q, o))
    /\ UNCHANGED pc

call_export_to_parquet ==
    /\ pc = "live"
    /\ \E q \in {Q_Users, Q_Bad}, o \in {"out.parquet", "/ro/out.parquet"} :
          LibCall("export_to_parquet", q \o <<o>>, export_to_parquet(World, q, o))
    /\ UNCHANGED pc

call_import_csv ==
    /\ pc = "live"
    /\ LibCall("import_csv", <<"data.csv", "users">>,
               import_csv(World, "data.csv", "users"))
    /\ UNCHANGED pc

call_import_parquet ==
    /\ pc = "live"
    /\ LibCall("import_parquet", <<"data.parquet", "users">>,
               import_parquet(World, "data.parquet", "users"))
    /\ UNCHANGED pc

call_close ==
    /\ pc \in {"live", "failed"}
    /\ LibCall("close", <<>>, close(World))
    /\ UNCHANGED pc

call_exit ==
    /\ pc \in {"live", "failed"}
    /\ LibCall("__exit__", <<>>, DuckDBClient_exit(World))
    /\ UNCHANGED pc

call_del ==
    /\ pc \in {"live", "failed"}
    /\ LibCall("__del__", <<>>, DuckDBClient_del(World))
    /\ UNCHANGED pc

ClientInit ==
    /\ args \in {[NoArgs EXCEPT !.db = d] : d \in {None, DbFile, LockedDb}}
    /\ db \in Databases(args.db)
    /\ fs \in {AllFiles, <<>>}
    /\ level \in {"DEBUG", "INFO", "WARNING"}
    /\ conn = None
    /\ engine = NoEngine
    /\ log = <<>>
    /\ stdout = <<>>
    /\ stderr = <<>>
    /\ pc = "new"
    /\ pending = NoExc
    /\ status = <<>>
    /\ calls = <<>>
    /\ finalized = FALSE

ClientNext ==
    \/ new_client
    \/ call_execute_query
    \/ call_execute_file
    \/ call_show_tables
    \/ call_describe_table
    \/ call_get_table_sample
    \/ call_export_to_csv
    \/ call_export_to_parquet
    \/ call_import_csv
    \/ call_import_parquet
    \/ call_close
    \/ call_exit
    \/ call_del

ClientSpec == ClientInit /\ [][ClientNext]_vars

-----------------------------------------------------------------------------
(* Properties *)

ClientOps == {"execute_query", "execute_file", "show_tables", "describe_table",
              "get_table_sample", "export_to_csv", "export_to_parquet",
              "import_csv", "import_parquet"}

ReleaseOps == {"close", "__exit__", "__del__"}

Exited == pc = "exited"

Constructed == calls # <<>> /\ calls[1].op = "__init__" /\ calls[1].exc = None

ErrorLines == Cardinality({j \in 1..Len(log) : log[j].level = "ERROR"})

Failed == \E i \in 1..Len(calls) : calls[i].exc # None

Succeeded ==
    /\ \E i \in 1..Len(calls) : calls[i].op \in ClientOps
    /\ ~Failed

Range(f) == {f[x] : x \in DOMAIN f}

(* C1: for every command whose Engine Client was constructed, the process has
   released the connection by the time it exits, on the success path and on
   every failure path: in no terminal state is the connection still open,
   and the engine connection was closed exactly once. *)
C1_ReleasedBeforeExit ==
    (Exited /\ Constructed) =>
        /\ conn = None
        /\ ~engine.open
        /\ engine.closes = 1

(* the handler has failed and exited with status 1 from inside the with block,
   no finalizer has run, and the connection is released *)
C1_Witness ==
    /\ Exited
    /\ Constructed
    /\ status = <<1>>
    /\ ~finalized
    /\ \E i \in 1..Len(calls) : calls[i].op \in ClientOps /\ calls[i].exc # None
    /\ engine.closes = 1

(* C2: close is idempotent.  Whatever release triggers (close, __exit__,
   __del__) are called on one client, in any order and number, also after a
   failed construction: none raises, the engine connection is closed at most
   once and exactly once if it was opened, and from the first release on the
   client's handle is absent. *)
C2_CloseIdempotent ==
    /\ \A i \in 1..Len(calls) :
          calls[i].op \in ReleaseOps =>
              /\ calls[i].exc = None
              /\ calls[i].post.conn = None
              /\ ~calls[i].post.open
              /\ calls[i].post.closes = calls[i].post.opens
              /\ \A j \in (i + 1)..Len(calls) :
                    calls[j].pre.conn = None /\ calls[j].post.conn = None
    /\ engine.closes <= 1

(* an opened client released twice, by close() and then by the finalizer *)
C2_Witness ==
    /\ Len(calls) = 3
    /\ calls[1].exc = None
    /\ calls[1].post.conn = Handle
    /\ calls[2].op = "close"
    /\ calls[3].op = "__del__"
    /\ engine.closes = 1

(* C3: every command handler catches every failure of the Engine Client
   (connection, query, file not found, write): the handler logs an error
   line, the process exits with status 1, no exception escapes uncaught, and
   nothing is printed to standard output after the failure. *)
C3_HandlersCatchEveryFailure ==
    Exited =>
        \A i \in 1..Len(calls) :
            (calls[i].op \in ClientOps \cup {"__init__"} /\ calls[i].exc # None) =>
                /\ stderr = <<>>
                /\ status = <<1>>
                /\ \E j \in 1..Len(log) :
                      log[j].name = CliLogger /\ log[j].level = "ERROR"
                /\ Len(stdout) = calls[i].nout

(* C4: when the engine rejects the statement, exactly one error line is
   emitted in the whole invocation, the client's and the handler's lines
   counted together, and the exit status is 1. *)
C4_OneErrorLine ==
    (Exited /\ \E k \in 1..Len(engine.stmts) : ~engine.stmts[k].ok) =>
        /\ ErrorLines = 1
        /\ status = <<1>>

(* what holds of a process that has exited *)
AtExit ==
    /\ status \in {<<0>>, <<1>>}
    /\ status = <<0>> <=> (args.command = None \/ Succeeded)
    /\ status = <<1>> <=> Failed
    /\ status = <<1>> => ErrorLines >= 1
    /\ args.command = None =>
          /\ calls = <<>>
          /\ engine.stmts = <<>>
          /\ stdout = <<HelpText>>

(* C5: every invocation terminates; it exits with status 0 exactly when no
   command was given or the dispatched operation succeeded, and with status 1
   exactly when the dispatched operation failed, an error line having been
   logged; with no command the help is printed and nothing is dispatched. *)
C5_StateMachine == [](Exited => AtExit) /\ <>Exited

(* a dispatched operation has failed and the process has exited with status 1 *)
C5_Witness ==
    /\ Exited
    /\ status = <<1>>
    /\ \E i \in 1..Len(calls) : calls[i].op \in ClientOps /\ calls[i].exc # None

(* C6: execute_file, import_csv and import_parquet on a path that does not
   exist fail with FileNotFoundError before contacting the engine: no
   statement is sent, and the database and the connection are as before. *)
C6_NotFoundBeforeEngine ==
    \A i \in 1..Len(calls) :
        (/\ calls[i].op \in {"execute_file", "import_csv", "import_parquet"}
         /\ calls[i].arg[1] \notin calls[i].pre.files) =>
            /\ calls[i].exc = "FileNotFoundError"
            /\ calls[i].post.nstmts = calls[i].pre.nstmts
            /\ calls[i].post.db = calls[i].pre.db
            /\ calls[i].post.conn = calls[i].pre.conn
            /\ calls[i].post.open = calls[i].pre.open

(* import_csv of a missing file on an open connection *)
C6_Witness ==
    \E i \in 1..Len(calls) :
        /\ calls[i].op = "import_csv"
        /\ calls[i].arg[1] \notin calls[i].pre.files
        /\ calls[i].pre.conn = Handle
        /\ calls[i].exc = "FileNotFoundError"

(* C7: a successful invocation of any command, with any options, makes
   exactly one Engine Client operation and sends exactly one statement to the
   engine. *)
C7_OneStatement ==
    (Exited /\ status = <<0>> /\ args.command # None) =>
        /\ Len(engine.stmts) = 1
        /\ Cardinality({i \in 1..Len(calls) : calls[i].op \in ClientOps}) = 1

(* C8: whenever the engine rejects a statement sent by an Engine Client
   operation, the operation raises to its caller and the Engine Client has
   logged the text of the rejected statement. *)
C8_RejectionLoggedAndRaised ==
    \A i \in 1..Len(calls) :
        \A k \in (calls[i].pre.nstmts + 1)..calls[i].post.nstmts :
            ~engine.stmts[k].ok =>
                /\ calls[i].exc # None
                /\ \E j \in (calls[i].pre.nlog + 1)..calls[i].post.nlog :
                      /\ log[j].name = ClientLogger
                      /\ Contains(log[j].msg, engine.stmts[k].sql)

(* the commands and options that render the result on the console *)
ConsolePath ==
    \/ args.command \in {"file", "tables", "describe", "sample"}
    \/ args.command = "query" /\ args.output_csv = None /\ args.output_parquet = None

(* C9: console rendering.  A result of zero rows prints exactly the notice
   "No results." and no footer; a result of N > 0 rows prints the table in
   the selected style and then the footer stating N; so exactly one of the
   notice and the footer is printed. *)
C9_ConsoleRendering ==
    (Exited /\ status = <<0>> /\ ConsolePath) =>
        /\ calls[2].df.nrows = 0 => stdout = <<Line(<<"No results.">>)>>
        /\ calls[2].df.nrows > 0 =>
              stdout = <<[kind |-> "table", text |-> <<>>, fmt |-> args.format,
                          df |-> calls[2].df],
                         Line(<<"\n(">> \o IntStr(calls[2].df.nrows) \o <<" rows)">>)>>
        /\ Cardinality({n \in 1..Len(stdout) :
                           \/ stdout[n] = Line(<<"No results.">>)
                           \/ /\ stdout[n].kind = "text"
                              /\ Contains(stdout[n].text, <<" rows)">>)}) = 1

(* a result of more than one row has been rendered in the markdown style *)
C9_Witness ==
    /\ Exited
    /\ status = <<0>>
    /\ ConsolePath
    /\ args.format = "markdown"
    /\ calls[2].df.nrows > 1
    /\ Len(stdout) = 2

(* the commands and options that export the result to a file *)
ExportPath ==
    \/ args.command \in {"export-csv", "export-parquet"}
    \/ args.command = "query" /\ (args.output_csv # None \/ args.output_parquet # None)

CsvPath ==
    \/ args.command = "export-csv"
    \/ args.command = "query" /\ args.output_csv # None

Destination ==
    IF args.command # "query" THEN args.output
    ELSE IF args.output_csv # None THEN args.output_csv ELSE args.output_parquet

(* C10: every export path prints, on success, one message that names the
   destination, and renders no table; on the CSV export paths (query
   --output-csv and export-csv) the message also states the number of rows
   exported. *)
C10_ExportMessages ==
    (Exited /\ status = <<0>> /\ ExportPath) =>
        /\ Len(stdout) = 1
        /\ stdout[1].kind = "text"
        /\ Destination \in Range(stdout[1].text)
        /\ CsvPath => Contains(stdout[1].text, IntStr(fs[Destination].nrows))

=============================================================================
